---------------------------- MODULE Spec2Model ----------------------------
(***************************************************************************)
(* A model of the trading decision and position lifecycle engine of        *)
(* lenoxbot: utils/position_manager.py (PositionManager), the parts of     *)
(* services/risk_management.py (RiskManager) the trading cycle uses, and   *)
(* bot.py (TradingBot.execute_trading_cycle / manage_positions).           *)
(*                                                                         *)
(* Numbers.  Prices and amounts are Python floats; the model keeps them as *)
(* integers in thousandths (1000 stands for 1.0).  A product of a price    *)
(* difference and an amount is therefore in millionths, and realized_pnl,  *)
(* which the code rounds to two decimals, is kept in hundredths (cents).   *)
(* Optional[float] values use None, a value outside the price range.       *)
(***************************************************************************)
EXTENDS Integers, Sequences, FiniteSets, TLC

(***************************************************************************)
(* Bounds of the model.                                                    *)
(***************************************************************************)
MaxClock == 1          \* the wall clock takes the values 0..MaxClock
MaxCalls == 3          \* store calls made by the caller in one behaviour
MaxCycles == 1         \* trading cycles started in one behaviour
MaxOpps == 2           \* opportunities discovery returns for one cycle
MaxTrades == 3         \* trade results recorded since the last reset

(***************************************************************************)
(* Input domains.                                                          *)
(***************************************************************************)
Tokens == {"A", "B"}
None == -1
\* prices a caller passes as exit price / current price
PriceSet == {0, 1000, 1004}
\* (token, entry_price, amount, stop_loss, take_profit) of open_position calls
OpenInputs ==
    { <<"A", 1000, 1000, None, 1004>>,
      <<"A", 1004, 1500, 1000, None>>,
      <<"B", 1000, 1250, None, 0>>,
      <<"B", 1000, 1500, 1000, 1004>> }
\* (stop_loss, take_profit) arguments of update_position calls
UpdateInputs == { <<None, None>>, <<1000, None>>, <<None, 1004>> }
Ids == Tokens \X (0..MaxClock)

VARIABLES
    active_positions,   \* PositionManager.active_positions: id -> record
    order,              \* insertion order of the keys of active_positions
    positions_file,     \* content of data/positions.json
    storage,            \* whether the file system takes writes of that file
    now,                \* the wall clock read by datetime.now()
    calls,              \* number of store calls made so far
    last,               \* the last store call: operation, arguments, result
    closed_log,         \* id -> the record as close_position left it
                        \*   (history, emptied by clear_positions)
    config,             \* RiskManager.config: the "trading" configuration
    daily_stats,        \* RiskManager.daily_stats
    pnl_log,            \* history: the pnl arguments of update_trade_stats
                        \*   since the statistics were last reset
    wallet,             \* which calls run() has made on the wallet
    executed,           \* history: the opportunities of this cycle whose
                        \*   trade the execution collaborator carried out
    opened,             \* history: the positions this cycle has opened
    pc,                 \* where execute_trading_cycle stands
    cycle,              \* number of trading cycles started
    opportunities,      \* the list discovery returned for this cycle
    oi,                 \* index of the opportunity being processed
    position_size,      \* local position_size of the opportunity loop
    positions,          \* manage_positions: the list get_active_positions gave
    si,                 \* index of the position being processed
    trail,              \* history: the steps taken for each opportunity,
                        \*   kept until the exit sweep makes its first pass
    sweep_log           \* history: the close_position calls of the exit sweep

storevars == <<active_positions, order, positions_file, closed_log>>
callvars == <<calls, last>>
envvars == <<config, storage>>
riskvars == <<daily_stats, pnl_log>>
runvars == <<wallet, executed, opened>>
cyclevars == <<pc, cycle, opportunities, oi, position_size, positions, si, trail,
               sweep_log>>
botvars == <<envvars, riskvars, runvars, pc, cycle, opportunities, oi, position_size,
             positions, si, trail, sweep_log>>
vars == <<active_positions, order, positions_file, storage, now, calls, last,
          closed_log, config, daily_stats, pnl_log, wallet, executed, opened,
          pc, cycle, opportunities, oi, position_size, positions, si, trail,
          sweep_log>>

(***************************************************************************)
(* Python helpers.                                                         *)
(***************************************************************************)
\* bool(x) of an Optional[float]: None and 0.0 are both falsy
Truthy(x) == x # None /\ x # 0

\* d[k] = v on a dict: an existing key keeps its place in the order
DictSet(d, k, v) == [x \in DOMAIN d \cup {k} |-> IF x = k THEN v ELSE d[x]]
OrderSet(o, d, k) == IF k \in DOMAIN d THEN o ELSE Append(o, k)

EmptyDict == [x \in {} |-> 0]

\* round(x, 2) of a value given in millionths, result in hundredths.  A value
\* exactly halfway between two hundredths has no exact binary float, so the
\* float the code rounds lies on either side of the tie: both neighbours.
Round2(micro) ==
    LET q == micro \div 10000
        r == micro % 10000
    IN  IF 2 * r < 10000 THEN {q}
        ELSE IF 2 * r > 10000 THEN {q + 1}
        ELSE {q, q + 1}

\* PositionManager._calculate_pnl: the set of results round() can give
calculate_pnl_truncating(position, current_price) ==
    LET micro == (current_price - position.entry_price) * position.amount
    IN  {IF micro >= 0 THEN micro \div 10000 ELSE -((-micro) \div 10000)}
calculate_pnl(position, current_price) ==
    Round2((current_price - position.entry_price) * position.amount)

\* PositionManager._save_positions: the file a completed json.dump leaves
save_positions_empty(d, o) == [data |-> EmptyDict, order |-> <<>>]
save_positions(d, o) == [data |-> d, order |-> o]

\* what the file system does with a write of the positions file: it takes
\* it, or open(file, "w") fails (no directory, no permission)
StorageModes == {"ok", "readonly"}

\* PositionManager._save_positions on a file with content `file`: the
\* exception of a failing open() is caught and logged, nothing is raised, and
\* the file stays as it was.
SavePositions(file, d, o) ==
    IF storage = "ok"
    THEN [file |-> save_positions(d, o), write |-> "ok"]
    ELSE [file |-> file, write |-> "failed"]

\* the record open_position builds
NewPosition_thresholds_swapped(token, entry_price, amount, stop_loss, take_profit, t) ==
    [ token |-> token, entry_price |-> entry_price, amount |-> amount,
      stop_loss |-> take_profit, take_profit |-> stop_loss,
      status |-> "open", entry_time |-> t, last_update |-> t,
      realized_pnl |-> 0 ]
NewPosition(token, entry_price, amount, stop_loss, take_profit, t) ==
    [ token |-> token, entry_price |-> entry_price, amount |-> amount,
      stop_loss |-> stop_loss, take_profit |-> take_profit,
      status |-> "open", entry_time |-> t, last_update |-> t,
      realized_pnl |-> 0 ]

\* position_id = f"{token}_{datetime.now().timestamp()}"
PositionId(token, t) == <<token, t>>

(***************************************************************************)
(* PositionManager operations, as functions of the store.                  *)
(***************************************************************************)
\* open_position: the store after the call and the id it returns
open_position(d, o, token, entry_price, amount, stop_loss, take_profit, t) ==
    LET position_id == PositionId(token, t)
        position == NewPosition(token, entry_price, amount, stop_loss,
                                take_profit, t)
    IN  [ d |-> DictSet(d, position_id, position),
          o |-> OrderSet(o, d, position_id),
          ret |-> position_id ]

\* the guard of close_position and update_position:
\*   position = self.active_positions.get(position_id)
\*   if not position or position["status"] != "open": return None / False
found_open_any_status(d, position_id) == position_id \in DOMAIN d
found_open(d, position_id) ==
    position_id \in DOMAIN d /\ d[position_id].status = "open"

\* close_position on a position the guard accepted, with the pnl computed
close_position(d, position_id, exit_price, t, pnl) ==
    LET p0 == d[position_id]
        p1 == DictSet(p0, "exit_price", exit_price)
        p2 == DictSet(p1, "exit_time", t)
        p3 == [p2 EXCEPT !.status = "closed"]
        p4 == [p3 EXCEPT !.realized_pnl = pnl]
    IN  [d EXCEPT ![position_id] = p4]

\* update_position on a position the guard accepted
update_position_overwriting(d, position_id, stop_loss, take_profit, t) ==
    LET p0 == d[position_id]
        p1 == [p0 EXCEPT !.stop_loss = stop_loss]
        p2 == [p1 EXCEPT !.take_profit = take_profit]
        p3 == [p2 EXCEPT !.last_update = t]
    IN  [d EXCEPT ![position_id] = p3]
update_position(d, position_id, stop_loss, take_profit, t) ==
    LET p0 == d[position_id]
        p1 == IF stop_loss # None THEN [p0 EXCEPT !.stop_loss = stop_loss] ELSE p0
        p2 == IF take_profit # None THEN [p1 EXCEPT !.take_profit = take_profit]
              ELSE p1
        p3 == [p2 EXCEPT !.last_update = t]
    IN  [d EXCEPT ![position_id] = p3]

\* the test of check_position_exits on one record
exit_hit(position, current_price) ==
    \/ (Truthy(position.stop_loss) /\ current_price <= position.stop_loss)
    \/ (Truthy(position.take_profit) /\ current_price >= position.take_profit)

\* check_position_exits: the ids, in dictionary order, whose record passes
check_position_exits(d, o, current_price) ==
    SelectSeq(o, LAMBDA id : exit_hit(d[id], current_price))

\* get_active_positions: the ids of the open records, in dictionary order
get_active_positions_reversed(d, o) ==
    LET s == SelectSeq(o, LAMBDA id : d[id].status = "open")
    IN  [i \in 1..Len(s) |-> s[Len(s) + 1 - i]]
get_active_positions(d, o) ==
    SelectSeq(o, LAMBDA id : d[id].status = "open")

SeqToSet(s) == {s[i] : i \in DOMAIN s}

(***************************************************************************)
(* RiskManager, as far as the trading cycle uses it.  Money and prices are *)
(* in thousandths, percentages of get_stop_loss / get_take_profit in       *)
(* thousandths of one (50 stands for 0.05), liquidity in whole dollars.    *)
(* Divisions round down to the thousandth.                                *)
(***************************************************************************)
\* dict.get(key, default)
Get(d, key, default) == IF key \in DOMAIN d THEN d[key] ELSE default

\* the "trading" section ConfigLoader ships: no account_size, risk_per_trade
\* or max_position_size
DefaultTrading ==
    [ network |-> "solana", max_active_trades |-> 3, position_size |-> 100,
      max_budget |-> 2000 ]
\* a "trading" section that supplies the risk parameters (the values of the
\* fixture of tests/test_risk_management.py)
UserTrading ==
    [ network |-> "solana", max_active_trades |-> 3,
      account_size |-> 1000000, risk_per_trade |-> 1000,
      max_position_size |-> 200000 ]
Configs == {DefaultTrading, UserTrading}
\* the configuration of the fixture of tests/test_risk_management.py, and one
\* that supplies the percentages under the keys the code reads
FixtureTrading ==
    [ account_size |-> 1000000, risk_per_trade |-> 1000,
      max_drawdown |-> 20000, max_daily_trades |-> 10,
      max_position_size |-> 200000, stop_loss_percentage |-> 5000,
      take_profit_percentage |-> 10000, min_risk_reward_ratio |-> 2000 ]
PercentTrading ==
    [ account_size |-> 1000000, risk_per_trade |-> 1000,
      max_position_size |-> 200000, stop_loss_percent |-> 50,
      take_profit_percent |-> 100 ]
\* a "trading" section that also sets min_liquidity
LiquidityTrading ==
    [ account_size |-> 1000000, risk_per_trade |-> 1000,
      max_position_size |-> 200000, min_liquidity |-> 5000 ]
\* the limits of the fixture of tests/test_risk_management.py on a smaller
\* scale: an account of 100, at most 2 trades a day, 20 % drawdown
LimitTrading ==
    [ account_size |-> 100000, risk_per_trade |-> 1000,
      max_position_size |-> 200000, max_drawdown |-> 20000,
      max_daily_trades |-> 2 ]
RiskConfigs ==
    Configs \cup {FixtureTrading, PercentTrading, LiquidityTrading, LimitTrading}
\* liquidity arguments, in whole dollars
Liquidities == {4999, 5000, 9999, 10000, 20000}
\* pnl arguments of update_trade_stats, in hundredths: -30, 0 and 50
PnlSet == {-3000, 0, 5000}
\* entry_price / stop_loss arguments: 0, 95, 99, 100 and 300 currency units
RiskPrices == {0, 95000, 99000, 100000, 300000}

\* RiskManager.check_trade_allowed
check_trade_allowed_strict(cfg, liquidity) ==
    ~(liquidity <= Get(cfg, "min_liquidity", 10000))
check_trade_allowed(cfg, liquidity) ==
    ~(liquidity < Get(cfg, "min_liquidity", 10000))

\* RiskManager.get_stop_loss / get_take_profit
get_stop_loss(cfg, entry_price) ==
    (entry_price * (1000 - Get(cfg, "stop_loss_percent", 50))) \div 1000
get_take_profit(cfg, entry_price) ==
    (entry_price * (1000 + Get(cfg, "take_profit_percent", 150))) \div 1000

Min(a, b) == IF a <= b THEN a ELSE b

\* RiskManager.calculate_position_size; a KeyError or ZeroDivisionError
\* raised inside is caught by its except clause, which returns 0
calculate_position_size_uncapped(cfg, entry_price, stop_loss) ==
    IF ~({"account_size", "risk_per_trade"} \subseteq DOMAIN cfg) THEN 0
    ELSE LET risk_per_trade == (cfg.account_size * cfg.risk_per_trade) \div 100000
             risk_per_unit == IF entry_price >= stop_loss
                              THEN entry_price - stop_loss
                              ELSE stop_loss - entry_price
         IN  IF risk_per_unit = 0 THEN 0
             ELSE (risk_per_trade * 1000) \div risk_per_unit
calculate_position_size_unguarded(cfg, entry_price, stop_loss) ==
    IF ~({"account_size", "risk_per_trade", "max_position_size"}
             \subseteq DOMAIN cfg) \/ entry_price = 0
    THEN 0
    ELSE LET risk_per_trade == (cfg.account_size * cfg.risk_per_trade) \div 100000
             risk_per_unit == IF entry_price >= stop_loss
                              THEN entry_price - stop_loss
                              ELSE stop_loss - entry_price
             cap == (cfg.max_position_size * 1000) \div entry_price
         IN  IF risk_per_unit = 0 THEN cap
             ELSE Min((risk_per_trade * 1000) \div risk_per_unit, cap)
calculate_position_size_signed(cfg, entry_price, stop_loss) ==
    IF ~({"account_size", "risk_per_trade", "max_position_size"}
             \subseteq DOMAIN cfg) \/ entry_price = 0
    THEN 0
    ELSE LET risk_per_trade == (cfg.account_size * cfg.risk_per_trade) \div 100000
             risk_per_unit == entry_price - stop_loss
         IN  IF risk_per_unit = 0 THEN 0
             ELSE Min((risk_per_trade * 1000) \div risk_per_unit,
                      (cfg.max_position_size * 1000) \div entry_price)
calculate_position_size_defaulting(cfg, entry_price, stop_loss) ==
    LET account_size == Get(cfg, "account_size", 1000000)
        risk_per_trade == (account_size * Get(cfg, "risk_per_trade", 1000))
                             \div 100000
        risk_per_unit == IF entry_price >= stop_loss
                         THEN entry_price - stop_loss
                         ELSE stop_loss - entry_price
    IN  IF risk_per_unit = 0 \/ entry_price = 0 THEN 0
        ELSE Min((risk_per_trade * 1000) \div risk_per_unit,
                 (Get(cfg, "max_position_size", 200000) * 1000) \div entry_price)
calculate_position_size(cfg, entry_price, stop_loss) ==
    IF ~({"account_size", "risk_per_trade"} \subseteq DOMAIN cfg) THEN 0
    ELSE LET risk_per_trade == (cfg.account_size * cfg.risk_per_trade) \div 100000
             risk_per_unit == IF entry_price >= stop_loss
                              THEN entry_price - stop_loss
                              ELSE stop_loss - entry_price
         IN  IF risk_per_unit = 0 THEN 0
             ELSE IF "max_position_size" \notin DOMAIN cfg \/ entry_price = 0
                  THEN 0
                  ELSE Min((risk_per_trade * 1000) \div risk_per_unit,
                           (cfg.max_position_size * 1000) \div entry_price)

(***************************************************************************)
(* RiskManager.daily_stats.  total_pnl and max_drawdown are in hundredths, *)
(* win_rate in hundredths of a percent.                                    *)
(***************************************************************************)
\* the daily_stats RiskManager.__init__ and reset_daily_stats build
NewStats(t) ==
    [ total_trades |-> 0, winning_trades |-> 0, losing_trades |-> 0,
      total_pnl |-> 0, max_drawdown |-> 0, last_reset |-> t ]

\* RiskManager.update_trade_stats
update_trade_stats_zero_wins(stats, pnl) ==
    LET s1 == [stats EXCEPT !.total_trades = @ + 1, !.total_pnl = @ + pnl]
        s2 == IF pnl >= 0 THEN [s1 EXCEPT !.winning_trades = @ + 1]
              ELSE [s1 EXCEPT !.losing_trades = @ + 1]
    IN  IF pnl < 0
        THEN [s2 EXCEPT !.max_drawdown = Min(@, s2.total_pnl)]
        ELSE s2
update_trade_stats_worst_trade(stats, pnl) ==
    LET s1 == [stats EXCEPT !.total_trades = @ + 1, !.total_pnl = @ + pnl]
        s2 == IF pnl > 0 THEN [s1 EXCEPT !.winning_trades = @ + 1]
              ELSE [s1 EXCEPT !.losing_trades = @ + 1]
    IN  IF pnl < 0
        THEN [s2 EXCEPT !.max_drawdown = Min(@, pnl)]
        ELSE s2
update_trade_stats(stats, pnl) ==
    LET s1 == [stats EXCEPT !.total_trades = @ + 1, !.total_pnl = @ + pnl]
        s2 == IF pnl > 0 THEN [s1 EXCEPT !.winning_trades = @ + 1]
              ELSE [s1 EXCEPT !.losing_trades = @ + 1]
    IN  IF pnl < 0
        THEN [s2 EXCEPT !.max_drawdown = Min(@, s2.total_pnl)]
        ELSE s2

\* RiskManager.reset_daily_stats
reset_daily_stats(t) == NewStats(t)

\* round(n / d, 0) for d > 0, n >= 0: the nearest integer
RoundDiv(n, d) == (2 * n + d) \div (2 * d)

\* the win_rate get_risk_metrics reports: round(wins / total * 100, 2)
win_rate_truncating(stats) ==
    IF stats.total_trades > 0
    THEN (stats.winning_trades * 10000) \div stats.total_trades
    ELSE 0
win_rate(stats) ==
    IF stats.total_trades > 0
    THEN RoundDiv(stats.winning_trades * 10000, stats.total_trades)
    ELSE 0

\* RiskManager.get_risk_metrics; self.config["risk_per_trade"] and
\* self.config["account_size"] raise KeyError when the key is missing, and
\* nothing catches it.  total_pnl and max_drawdown are whole hundredths, which
\* round(..., 2) returns as they are.
get_risk_metrics(stats, cfg) ==
    IF ~({"risk_per_trade", "account_size"} \subseteq DOMAIN cfg)
    THEN [raised |-> "KeyError"]
    ELSE [ raised |-> "none", win_rate |-> win_rate(stats),
           total_pnl |-> stats.total_pnl, max_drawdown |-> stats.max_drawdown,
           total_trades |-> stats.total_trades,
           risk_per_trade |-> cfg.risk_per_trade,
           account_size |-> cfg.account_size ]

\* manage_positions closes the positions check_position_exits names and
\* drops what close_position returns: daily_stats after the ids in `closed`
\* were closed
stats_after_sweep_counted(stats, closed) ==
    [stats EXCEPT !.total_trades = @ + Cardinality(closed)]
stats_after_sweep(stats, closed) == stats

(***************************************************************************)
(* The collaborators of the trading cycle: what they can return.           *)
(***************************************************************************)
\* DexScreener.get_filtered_tokens: opportunities (symbol stands for address)
OppSet ==
    { [address |-> "A", price_usd |-> 1000, liquidity_usd |-> 20000],
      [address |-> "B", price_usd |-> 1000, liquidity_usd |-> 5000],
      [address |-> "B", price_usd |-> 0, liquidity_usd |-> 20000],
      [address |-> "B", price_usd |-> 300000, liquidity_usd |-> 20000] }
OppLists == UNION {[1..n -> OppSet] : n \in 0..MaxOpps}

\* SolanaSniffer.check_contract: {} or the analysis with its safety_score
SafetyAnalyses == {EmptyDict, [safety_score |-> 50], [safety_score |-> 90]}

\* `if not await self.sniffer.check_contract(token_address)`: the dictionary
\* check_contract returns counts as true unless it is empty
check_contract(analysis) == DOMAIN analysis # {}

\* SolanaSniffer.is_safe, with its default threshold
is_safe(analysis) == Get(analysis, "safety_score", 0) >= 85

\* SentimentAnalyzer.get_token_sentiment: {} or the sentiment data
Sentiments ==
    { EmptyDict,
      [galaxy_score |-> 70, sentiment_relative |-> 700],
      [galaxy_score |-> 70, sentiment_relative |-> 600],
      [galaxy_score |-> 50, sentiment_relative |-> 700] }

\* SentimentAnalyzer.is_bullish_sentiment
is_bullish_sentiment(sentiment) ==
    /\ Get(sentiment, "galaxy_score", 0) >= 60
    /\ Get(sentiment, "sentiment_relative", 0) > 600

\* Jupiter.get_best_route: "amount": str(int(amount)), the size the quote is
\* asked for, in whole units
route_amount(amount) == amount \div 1000

\* Jupiter.get_token_price: None or a price
FetchPrices == {None, 900, 1000, 1200}

\* if not current_price: ... continue  (manage_positions)
price_ok_any(current_price) == TRUE
price_ok(current_price) == Truthy(current_price)

\* data/positions.json when the bot starts.  _load_positions returns the
\* JSON object as it is, or {} when there is no file.  The second content is
\* a store whose records carry the key token_address, which manage_positions
\* reads (bot.py line 116); open_position writes no such key.
PositionsFiles ==
    { save_positions(EmptyDict, <<>>),
      save_positions(
        (<<"A", -1>> :>
            [ token |-> "A", token_address |-> "A", entry_price |-> 1000,
              amount |-> 1000, stop_loss |-> 950, take_profit |-> 1150,
              status |-> "open", entry_time |-> -1, last_update |-> -1,
              realized_pnl |-> 0 ])
        @@
        (<<"B", -1>> :>
            [ token |-> "B", token_address |-> "B", entry_price |-> 1000,
              amount |-> 1500, stop_loss |-> 950, take_profit |-> 1150,
              status |-> "open", entry_time |-> -1, last_update |-> -1,
              realized_pnl |-> 0 ]),
        << <<"A", -1>>, <<"B", -1>> >>) }

\* PositionManager._load_positions
load_positions(file) == file

\* the bot between two cycles
BotIdle ==
    /\ pc = "idle"
    /\ cycle = 0
    /\ opportunities = <<>>
    /\ oi = 0
    /\ position_size = 0
    /\ positions = <<>>
    /\ si = 0
    /\ trail = <<>>
    /\ sweep_log = <<>>

\* TradingBot.__init__: the wallet is built, nothing has been called on it
RunInit ==
    /\ wallet = "new"
    /\ executed = {}
    /\ opened = {}

\* RiskManager.__init__: the statistics of a new instance
StatsInit ==
    /\ daily_stats = NewStats(0)
    /\ pnl_log = <<>>

(***************************************************************************)
(* The caller of the store: any sequence of calls, the clock ticking (or   *)
(* not) between them.                                                      *)
(***************************************************************************)
NoId == <<"-", 0>>
\* write: what became of the _save_positions of the call ("none": no save)
Call(op, id, price, ok, exits) ==
    [op |-> op, id |-> id, price |-> price, ok |-> ok, exits |-> exits,
     write |-> "none", args |-> <<>>]
Saved(call, w) == [call EXCEPT !.write = w.write]
\* the stop_loss / take_profit arguments of an update_position call
WithArgs(call, u) == [call EXCEPT !.args = u]

Init ==
    /\ active_positions = EmptyDict
    /\ order = <<>>
    /\ positions_file = save_positions(EmptyDict, <<>>)
    /\ storage = "ok"
    /\ now = 0
    /\ calls = 0
    /\ last = Call("init", NoId, None, TRUE, <<>>)
    /\ closed_log = EmptyDict
    /\ config = UserTrading
    /\ StatsInit
    /\ RunInit
    /\ BotIdle

Tick ==
    /\ now < MaxClock
    /\ now' = now + 1
    /\ UNCHANGED <<storevars, callvars, botvars>>

OpenPosition ==
    /\ calls < MaxCalls
    /\ \E inp \in OpenInputs :
         LET r == open_position(active_positions, order, inp[1], inp[2],
                                inp[3], inp[4], inp[5], now)
             w == SavePositions(positions_file, r.d, r.o)
         IN    /\ active_positions' = r.d
               /\ order' = r.o
               /\ positions_file' = w.file
               /\ last' = Saved(Call("open", r.ret, inp[2], TRUE, <<>>), w)
    /\ calls' = calls + 1
    /\ UNCHANGED <<now, closed_log, botvars>>

ClosePosition ==
    /\ calls < MaxCalls
    /\ \E position_id \in Ids, exit_price \in PriceSet :
         IF found_open(active_positions, position_id)
         THEN \E pnl \in calculate_pnl(active_positions[position_id], exit_price) :
                LET d == close_position(active_positions, position_id,
                                        exit_price, now, pnl)
                    w == SavePositions(positions_file, d, order)
                IN    /\ active_positions' = d
                      /\ positions_file' = w.file
                      /\ closed_log' = DictSet(closed_log, position_id,
                                               d[position_id])
                      /\ last' = Saved(Call("close", position_id, exit_price,
                                            TRUE, <<>>), w)
         ELSE /\ last' = Call("close", position_id, exit_price, FALSE, <<>>)
              /\ UNCHANGED <<active_positions, positions_file, closed_log>>
    /\ calls' = calls + 1
    /\ UNCHANGED <<now, order, botvars>>

UpdatePosition ==
    /\ calls < MaxCalls
    /\ \E position_id \in Ids, u \in UpdateInputs :
         \* current_price is accepted and never read (lines 111-138)
         IF found_open(active_positions, position_id)
         THEN LET d == update_position(active_positions, position_id,
                                       u[1], u[2], now)
                  w == SavePositions(positions_file, d, order)
              IN    /\ active_positions' = d
                    /\ positions_file' = w.file
                    /\ last' = WithArgs(Saved(Call("update", position_id,
                                                   None, TRUE, <<>>), w), u)
         ELSE /\ last' = WithArgs(Call("update", position_id, None, FALSE,
                                       <<>>), u)
              /\ UNCHANGED <<active_positions, positions_file>>
    /\ calls' = calls + 1
    /\ UNCHANGED <<now, order, closed_log, botvars>>

CheckPositionExits ==
    /\ calls < MaxCalls
    /\ \E current_price \in PriceSet :
         last' = Call("check", NoId, current_price, TRUE,
                      check_position_exits(active_positions, order, current_price))
    /\ calls' = calls + 1
    /\ UNCHANGED <<active_positions, order, positions_file, now, closed_log, botvars>>

ClearPositions ==
    /\ calls < MaxCalls
    /\ active_positions' = EmptyDict
    /\ order' = <<>>
    /\ LET w == SavePositions(positions_file, EmptyDict, <<>>)
       IN  /\ positions_file' = w.file
           /\ last' = Saved(Call("clear", NoId, None, TRUE, <<>>), w)
    /\ closed_log' = EmptyDict
    /\ calls' = calls + 1
    /\ UNCHANGED <<now, botvars>>

\* PositionManager.__init__ of a new instance over the file the earlier one
\* left (the process was stopped and started again)
Restart ==
    /\ calls < MaxCalls
    /\ active_positions' = load_positions(positions_file).data
    /\ order' = load_positions(positions_file).order
    /\ closed_log' = EmptyDict
    /\ last' = Call("restart", NoId, None, TRUE, <<>>)
    /\ calls' = calls + 1
    /\ UNCHANGED <<positions_file, now, botvars>>

\* the file system changes under the running process
StorageChange ==
    /\ \E mode \in StorageModes \ {storage} : storage' = mode
    /\ UNCHANGED <<storevars, callvars, now, config, riskvars, runvars,
                   cyclevars>>

Next ==
    \/ Tick
    \/ StorageChange
    \/ OpenPosition
    \/ ClosePosition
    \/ UpdatePosition
    \/ CheckPositionExits
    \/ ClearPositions
    \/ Restart

Spec == Init /\ [][Next]_vars

(***************************************************************************)
(* TradingBot.execute_trading_cycle and manage_positions, one action per   *)
(* step of the opportunity loop and per pass of the position loop.         *)
(***************************************************************************)
InitBot ==
    /\ \E file \in PositionsFiles :
          /\ positions_file = file
          /\ active_positions = load_positions(file).data
          /\ order = load_positions(file).order
    /\ storage \in StorageModes
    /\ now = 0
    /\ calls = 0
    /\ last = Call("init", NoId, None, TRUE, <<>>)
    /\ closed_log = EmptyDict
    /\ config \in Configs
    /\ StatsInit
    /\ RunInit
    /\ BotIdle

\* the step that follows a step of the opportunity loop: each failed check
\* ends in `continue`, the next opportunity
NextStage_no_continue(stage, passed) ==
    CASE stage = "safety" -> "sentiment"
      [] stage = "sentiment" -> "risk"
      [] stage = "risk" -> "size"
      [] stage = "size" -> "route"
      [] stage = "route" -> "trade"
      [] stage = "trade" -> "record"
      [] OTHER -> "next"
NextStage(stage, passed) ==
    IF ~passed THEN "next"
    ELSE CASE stage = "safety" -> "sentiment"
           [] stage = "sentiment" -> "risk"
           [] stage = "risk" -> "size"
           [] stage = "size" -> "route"
           [] stage = "route" -> "trade"
           [] stage = "trade" -> "record"
           [] OTHER -> "next"

\* move to `target`; "next" is the next opportunity or, after the last one,
\* manage_positions over the store (d, o); with no active position the cycle
\* returns at once
Goto(target, i, d, o) ==
    IF target # "next"
    THEN pc' = target /\ oi' = i /\ UNCHANGED <<positions, si>>
    ELSE IF i < Len(opportunities)
         THEN pc' = "safety" /\ oi' = i + 1 /\ UNCHANGED <<positions, si>>
         ELSE /\ oi' = i + 1
              /\ positions' = get_active_positions(d, o)
              /\ si' = 1
              /\ pc' = IF get_active_positions(d, o) = <<>> THEN "returned" ELSE "sweep"

Event(i, step, passed) == [opp |-> i, step |-> step, pass |-> passed]

\* what is kept of a step once the loop has gone past the next one
Finished(events) ==
    [k \in DOMAIN events |->
        Event(events[k].opp, events[k].step, events[k].pass)]

\* one check of the opportunity loop, with its outcome; `event` goes on record
Checked(event, stage, passed) ==
    /\ trail' = IF NextStage(stage, passed) = "next"
                THEN Finished(Append(trail, event))
                ELSE Append(Finished(trail), event)
    /\ Goto(NextStage(stage, passed), oi, active_positions, order)
    /\ UNCHANGED <<storevars, callvars, now, envvars, riskvars, wallet,
                   opened, cycle, opportunities, sweep_log>>

Gate(stage, passed) == Checked(Event(oi, stage, passed), stage, passed)

StartCycle ==
    /\ pc = "idle"
    /\ wallet = "connect_called"
    /\ cycle < MaxCycles
    /\ cycle' = cycle + 1
    /\ \E opps \in OppLists :
          /\ opportunities' = opps
          /\ IF opps # <<>>
             THEN pc' = "safety" /\ oi' = 1 /\ UNCHANGED <<positions, si>>
             ELSE /\ oi' = 1
                  /\ positions' = get_active_positions(active_positions, order)
                  /\ si' = 1
                  /\ pc' = IF get_active_positions(active_positions, order) = <<>>
                           THEN "returned" ELSE "sweep"
    /\ UNCHANGED <<storevars, callvars, now, envvars, riskvars, runvars,
                   position_size, trail, sweep_log>>

\* if not await self.sniffer.check_contract(token_address): continue
SafetyGate ==
    /\ pc = "safety"
    /\ \E analysis \in SafetyAnalyses :
          Checked([opp |-> oi, step |-> "safety", pass |-> check_contract(analysis),
                   analysis |-> analysis],
                  "safety", check_contract(analysis))
    /\ UNCHANGED <<position_size, executed>>

SentimentGate ==
    /\ pc = "sentiment"
    /\ \E sentiment \in Sentiments :
          Gate("sentiment", is_bullish_sentiment(sentiment))
    /\ UNCHANGED <<position_size, executed>>

RiskGate ==
    /\ pc = "risk"
    /\ Gate("risk", check_trade_allowed(config, opportunities[oi].liquidity_usd))
    /\ UNCHANGED <<position_size, executed>>

\* position_size = calculate_position_size(...); if not position_size: continue
Sizing ==
    /\ pc = "size"
    /\ LET current_price == opportunities[oi].price_usd
           size == calculate_position_size(config, current_price,
                                           get_stop_loss(config, current_price))
       IN  /\ position_size' = size
           /\ Gate("size", size # 0)
    /\ UNCHANGED executed

Route ==
    /\ pc = "route"
    /\ \E route \in BOOLEAN : Gate("route", route)
    /\ UNCHANGED <<position_size, executed>>

Trade ==
    /\ pc = "trade"
    /\ \E swap_tx \in BOOLEAN :
          /\ Gate("trade", swap_tx)
          /\ executed' = IF swap_tx THEN executed \cup {oi} ELSE executed
    /\ UNCHANGED position_size

\* self.position_manager.open_position(token_address, current_price,
\*     position_size, stop_loss, take_profit)
Record ==
    /\ pc = "record"
    /\ LET current_price == opportunities[oi].price_usd
           r == open_position(active_positions, order,
                              opportunities[oi].address, current_price,
                              position_size,
                              get_stop_loss(config, current_price),
                              get_take_profit(config, current_price), now)
       IN  /\ active_positions' = r.d
           /\ order' = r.o
           /\ positions_file' = SavePositions(positions_file, r.d, r.o).file
           /\ trail' = Finished(Append(trail, Event(oi, "record", TRUE)))
           /\ opened' = opened \cup {[opp |-> oi, id |-> r.ret]}
           /\ Goto("next", oi, r.d, r.o)
    /\ UNCHANGED <<closed_log, callvars, now, envvars, riskvars, wallet,
                   executed, cycle, opportunities, position_size, sweep_log>>

\* for exit_id in exits: close_position(exit_id, current_price): the stores
\* and files the loop can leave (one per result of round())
RECURSIVE CloseEach(_, _, _, _, _, _)
CloseEach(d, o, file, exits, current_price, t) ==
    IF exits = <<>> THEN {[d |-> d, file |-> file]}
    ELSE IF found_open(d, Head(exits))
         THEN UNION { CloseEach(
                        close_position(d, Head(exits), current_price, t, pnl), o,
                        SavePositions(file,
                            close_position(d, Head(exits), current_price, t, pnl),
                            o).file,
                        Tail(exits), current_price, t)
                      : pnl \in calculate_pnl(d[Head(exits)], current_price) }
         ELSE CloseEach(d, o, file, Tail(exits), current_price, t)

\* the loop moves to the next position, or manage_positions returns
NextPosition ==
    /\ si' = si + 1
    /\ pc' = IF si < Len(positions) THEN "sweep" ELSE "returned"

\* what one pass of the loop did: the position, the price fetched for it, the
\* result of check_position_exits and the ids close_position closed
Pass(id, token_address, price, exits, closed) ==
    [ id |-> id, token_address |-> token_address, price |-> price,
      exits |-> exits, closed |-> closed ]

\* one pass of the loop of manage_positions over the list `positions`
SweepPosition ==
    /\ pc = "sweep"
    /\ LET position == active_positions[positions[si]]
       IN  IF "token_address" \notin DOMAIN position
           THEN \* position["token_address"] raises KeyError, which nothing
                \* in manage_positions or execute_trading_cycle catches
                /\ pc' = "raised"
                /\ UNCHANGED <<storevars, daily_stats, si, sweep_log>>
           ELSE \E current_price \in FetchPrices :
                  IF ~price_ok(current_price)
                  THEN /\ sweep_log' = Append(sweep_log,
                             Pass(positions[si], position.token_address,
                                  current_price, <<>>, {}))
                       /\ NextPosition
                       /\ UNCHANGED <<storevars, daily_stats>>
                  ELSE LET exits == check_position_exits(active_positions, order,
                                                         current_price)
                       IN  \E r \in CloseEach(active_positions, order,
                                              positions_file, exits,
                                              current_price, now) :
                             LET closed == {id \in DOMAIN r.d :
                                               /\ active_positions[id].status = "open"
                                               /\ r.d[id].status = "closed"}
                             IN  /\ active_positions' = r.d
                                 /\ positions_file' = r.file
                                 /\ closed_log' =
                                       [id \in DOMAIN closed_log \cup closed |->
                                          IF id \in closed THEN r.d[id]
                                          ELSE closed_log[id]]
                                 /\ sweep_log' = Append(sweep_log,
                                       Pass(positions[si], position.token_address,
                                            current_price, exits, closed))
                                 /\ daily_stats' =
                                       stats_after_sweep(daily_stats, closed)
                                 /\ NextPosition
                                 /\ UNCHANGED order
    /\ trail' = <<>>
    /\ UNCHANGED <<callvars, now, envvars, pnl_log, runvars, cycle,
                   opportunities, oi, position_size, positions>>

\* TradingBot.run: the cycle has returned; await asyncio.sleep(...), then the
\* next cycle.  The locals of the finished cycle are gone, and the histories
\* start afresh.
Sleep ==
    /\ pc = "returned"
    /\ pc' = "idle"
    /\ opportunities' = <<>>
    /\ oi' = 0
    /\ position_size' = 0
    /\ positions' = <<>>
    /\ si' = 0
    /\ trail' = <<>>
    /\ sweep_log' = <<>>
    /\ executed' = {}
    /\ opened' = {}
    /\ UNCHANGED <<storevars, callvars, now, envvars, riskvars, wallet, cycle>>

\* PhantomWallet.connect / disconnect as run() sees them: both catch their
\* own errors, and run() drops what connect returns
connect(w) == "connect_called"
disconnect_skipped(w) == w
disconnect(w) == "disconnect_called"

\* TradingBot.run: await self.wallet.connect(), then the loop
Connect ==
    /\ pc = "idle"
    /\ wallet = "new"
    /\ wallet' = connect(wallet)
    /\ UNCHANGED <<storevars, callvars, now, envvars, riskvars, executed,
                   opened, cyclevars>>

\* where run() is suspended in an await inside its loop: the discovery fetch,
\* the safety check, the sentiment fetch, the route lookup, the execution,
\* the price lookup of the sweep, asyncio.sleep
AwaitPoints ==
    {"idle", "safety", "sentiment", "route", "trade", "sweep", "returned"}

\* an interrupt or a cancellation reaches run() while it is suspended inside
\* the loop: the await raises, what the awaited call was to return is lost,
\* and the exception unwinds execute_trading_cycle with its locals.  The
\* request of an execution that was under way may have been carried out.
Cancel ==
    /\ wallet = "connect_called"
    /\ pc \in AwaitPoints
    /\ pc' = "interrupted"
    /\ executed' \in IF pc = "trade" THEN {executed, executed \cup {oi}}
                     ELSE {executed}
    /\ opportunities' = <<>>
    /\ oi' = 0
    /\ position_size' = 0
    /\ positions' = <<>>
    /\ si' = 0
    /\ trail' = <<>>
    /\ sweep_log' = <<>>
    /\ UNCHANGED <<storevars, callvars, now, envvars, riskvars, wallet, opened,
                   cycle>>

\* an interrupt or a cancellation reaches run() while it awaits connect(),
\* before the try statement: run() ends at once
CancelConnect ==
    /\ pc = "idle"
    /\ wallet = "new"
    /\ pc' = "aborted"
    /\ wallet' = connect(wallet)
    /\ UNCHANGED <<storevars, callvars, now, envvars, riskvars, executed,
                   opened, cycle, opportunities, oi, position_size, positions,
                   si, trail, sweep_log>>

\* TradingBot.run leaves its loop: the exception of a cycle is no
\* KeyboardInterrupt, so it passes the except clause (a KeyboardInterrupt is
\* logged there); the finally clause disconnects the wallet and run() ends.
\* The locals of the cycle are gone with it, and so are the histories.
RunFails ==
    /\ pc \in {"raised", "interrupted"}
    /\ pc' = "stopped"
    /\ wallet' = disconnect(wallet)
    /\ opportunities' = <<>>
    /\ oi' = 0
    /\ position_size' = 0
    /\ positions' = <<>>
    /\ si' = 0
    /\ trail' = <<>>
    /\ sweep_log' = <<>>
    /\ executed' = {}
    /\ opened' = {}
    /\ UNCHANGED <<storevars, callvars, now, envvars, riskvars, cycle>>

TickBot ==
    /\ now < MaxClock
    /\ now' = now + 1
    /\ UNCHANGED <<storevars, callvars, botvars>>

NextBot ==
    \/ TickBot
    \/ Connect
    \/ CancelConnect
    \/ Cancel
    \/ StartCycle
    \/ SafetyGate
    \/ SentimentGate
    \/ RiskGate
    \/ Sizing
    \/ Route
    \/ Trade
    \/ Record
    \/ SweepPosition
    \/ Sleep
    \/ RunFails

SpecBot == InitBot /\ [][NextBot]_vars

\* the event loop keeps running the coroutine of run(): a step of the bot
\* that can be taken is taken
SpecBotLive == InitBot /\ [][NextBot]_vars /\ WF_vars(NextBot)

(***************************************************************************)
(* RiskManager on its own: a configuration, and calls of its functions on  *)
(* any arguments.                                                          *)
(***************************************************************************)
RiskCall(op, entry_price, stop_loss, result) ==
    [op |-> op, entry_price |-> entry_price, stop_loss |-> stop_loss,
     result |-> result]

InitRisk ==
    /\ active_positions = EmptyDict
    /\ order = <<>>
    /\ positions_file = save_positions(EmptyDict, <<>>)
    /\ storage = "ok"
    /\ now = 0
    /\ calls = 0
    /\ last = RiskCall("init", None, None, None)
    /\ closed_log = EmptyDict
    /\ config \in RiskConfigs
    /\ StatsInit
    /\ RunInit
    /\ BotIdle

CalculatePositionSize ==
    /\ \E entry_price \in RiskPrices, stop_loss \in RiskPrices :
          last' = RiskCall("size", entry_price, stop_loss,
                           calculate_position_size(config, entry_price, stop_loss))
    /\ UNCHANGED <<storevars, now, calls, botvars>>

GetStopLoss ==
    /\ \E entry_price \in RiskPrices :
          last' = RiskCall("stop_loss", entry_price, None,
                           get_stop_loss(config, entry_price))
    /\ UNCHANGED <<storevars, now, calls, botvars>>

GetTakeProfit ==
    /\ \E entry_price \in RiskPrices :
          last' = RiskCall("take_profit", entry_price, None,
                           get_take_profit(config, entry_price))
    /\ UNCHANGED <<storevars, now, calls, botvars>>

CheckTradeAllowed ==
    /\ \E liquidity \in Liquidities :
          last' = [op |-> "allowed", liquidity |-> liquidity,
                   result |-> check_trade_allowed(config, liquidity)]
    /\ UNCHANGED <<storevars, now, calls, botvars>>

UpdateTradeStats ==
    /\ Len(pnl_log) < MaxTrades
    /\ \E pnl \in PnlSet :
          /\ daily_stats' = update_trade_stats(daily_stats, pnl)
          /\ pnl_log' = Append(pnl_log, pnl)
          /\ last' = [op |-> "stats", pnl |-> pnl]
    /\ UNCHANGED <<storevars, now, calls, envvars, runvars, cyclevars>>

ResetDailyStats ==
    /\ daily_stats' = reset_daily_stats(now)
    /\ pnl_log' = <<>>
    /\ last' = [op |-> "reset"]
    /\ UNCHANGED <<storevars, now, calls, envvars, runvars, cyclevars>>

GetRiskMetrics ==
    /\ last' = [op |-> "metrics",
                result |-> get_risk_metrics(daily_stats, config)]
    /\ UNCHANGED <<storevars, now, calls, botvars>>

NextRisk ==
    \/ CalculatePositionSize
    \/ GetStopLoss
    \/ GetTakeProfit
    \/ CheckTradeAllowed
    \/ UpdateTradeStats
    \/ ResetDailyStats
    \/ GetRiskMetrics

SpecRisk == InitRisk /\ [][NextRisk]_vars

(***************************************************************************)
(* Claims about the position store.                                        *)
(***************************************************************************)
\* a step of the caller that is a call of operation op
IsCall(op) == calls' = calls + 1 /\ last'.op = op
Abs(x) == IF x < 0 THEN -x ELSE x

\* C1: without clear_positions, an id that has been closed never again names
\* a record with status OPEN (closed_log holds the ids closed since the last
\* clear_positions).
C1_NoReopen ==
    \A id \in DOMAIN closed_log :
        id \in DOMAIN active_positions => active_positions[id].status = "closed"

\* C2: close_position on an id that is absent or already CLOSED returns None
\* and changes nothing, so a second close, at any exit price, leaves the
\* record exactly as the first close set it.
C2_RejectedCloseIsNoOp ==
    [][ (IsCall("close")
         /\ ~(last'.id \in DOMAIN active_positions
              /\ active_positions[last'.id].status = "open"))
        => (/\ last'.ok = FALSE
            /\ active_positions' = active_positions
            /\ order' = order
            /\ positions_file' = positions_file) ]_vars

\* C2 witness: a second close of a closed id, at another exit price, was rejected
C2_Witness ==
    /\ last.op = "close" /\ last.ok = FALSE
    /\ last.id \in DOMAIN closed_log
    /\ last.id \in DOMAIN active_positions
    /\ active_positions[last.id] = closed_log[last.id]
    /\ active_positions[last.id].exit_price # last.price

\* C3: a record that has been closed is never changed again, by any operation
\* other than clear_positions.
C3_ClosedRecordFrozen ==
    \A id \in DOMAIN closed_log :
        id \in DOMAIN active_positions /\ active_positions[id] = closed_log[id]

\* the exact product (exit_price - entry_price) * amount, in millionths
ExactPnl(position) ==
    (position.exit_price - position.entry_price) * position.amount

\* C4 as stated: after a successful close realized_pnl is exactly
\* (exit_price - entry_price) * amount, with no rounding.
C4_PnlExact ==
    (last.op = "close" /\ last.ok)
        => active_positions[last.id].realized_pnl * 10000
               = ExactPnl(active_positions[last.id])

\* C4 amended: after a successful close realized_pnl is
\* (exit_price - entry_price) * amount rounded to two decimals (within half a
\* hundredth of the exact product), and it is 0 when exit_price = entry_price.
C4_PnlRounded ==
    (last.op = "close" /\ last.ok)
        => LET p == active_positions[last.id]
           IN  /\ p.exit_price = last.price
               /\ Abs(p.realized_pnl * 10000 - ExactPnl(p)) <= 5000
               /\ (p.exit_price = p.entry_price => p.realized_pnl = 0)

\* C4 witness: a successful close whose exact product is not a whole number of
\* hundredths
C4_Witness ==
    /\ last.op = "close" /\ last.ok
    /\ ExactPnl(active_positions[last.id]) % 10000 # 0

\* C5: every open_position call returns an id that was not in the store and
\* adds exactly one record, leaving every existing record as it was.
C5_OpenIsFresh ==
    [][ IsCall("open")
        => (/\ last'.id \notin DOMAIN active_positions
            /\ Cardinality(DOMAIN active_positions')
                   = Cardinality(DOMAIN active_positions) + 1
            /\ \A id \in DOMAIN active_positions :
                   active_positions'[id] = active_positions[id]) ]_vars

\* "the threshold is set": it is not None
IsSet(x) == x # None

\* C6: check_position_exits(price) includes an OPEN position exactly when
\* (stop_loss is set and price <= stop_loss) or (take_profit is set and
\* price >= take_profit).
C6_ExitsIffThreshold ==
    last.op = "check"
        => \A id \in DOMAIN active_positions :
              active_positions[id].status = "open"
                  => ( id \in SeqToSet(last.exits)
                       <=> LET p == active_positions[id]
                           IN  \/ (IsSet(p.stop_loss) /\ last.price <= p.stop_loss)
                               \/ (IsSet(p.take_profit)
                                       /\ last.price >= p.take_profit) )

\* C7: check_position_exits never returns the id of a CLOSED position.
C7_NoClosedInExits ==
    last.op = "check"
        => \A id \in SeqToSet(last.exits) :
              active_positions[id].status # "closed"

(***************************************************************************)
(* Claims about the trading cycle.                                         *)
(***************************************************************************)
StageNo(step) ==
    CASE step = "safety" -> 1
      [] step = "sentiment" -> 2
      [] step = "risk" -> 3
      [] step = "size" -> 4
      [] step = "route" -> 5
      [] step = "trade" -> 6
      [] step = "record" -> 7

\* C8: a step is taken for an opportunity only after every earlier step of the
\* chain safety, sentiment, check_trade_allowed, sizing, route, execution was
\* taken for that opportunity and passed; so open_position follows a
\* successful execution only, and nothing follows a failed step.
C8_GatesInOrder ==
    \A k \in DOMAIN trail :
        \A n \in 1..(StageNo(trail[k].step) - 1) :
            \E j \in 1..(k - 1) :
                /\ trail[j].opp = trail[k].opp
                /\ StageNo(trail[j].step) = n
                /\ trail[j].pass

\* C8 witness: in one cycle a position was recorded for one opportunity and the
\* execution failed for another
C8_Witness ==
    /\ \E k \in DOMAIN trail : trail[k].step = "record"
    /\ \E j \in DOMAIN trail : trail[j].step = "trade" /\ ~trail[j].pass
    /\ Cardinality(DOMAIN active_positions) = 1

\* C9: a trading cycle never raises, and when it returns every opportunity
\* and every position of the sweep's list has been processed.
C9_CycleIsolatesFailures ==
    /\ pc # "raised"
    /\ pc = "returned"
          => (oi = Len(opportunities) + 1 /\ si = Len(positions) + 1)

C12_FailedFetchSkips ==
    [][ ( /\ pc = "sweep"
          /\ Len(sweep_log') = Len(sweep_log) + 1
          /\ sweep_log'[Len(sweep_log')].price = None )
        => ( /\ pc' = (IF si < Len(positions) THEN "sweep" ELSE "returned")
             /\ si' = si + 1
             /\ sweep_log'[Len(sweep_log')].exits = <<>>
             /\ sweep_log'[Len(sweep_log')].closed = {}
             /\ active_positions' = active_positions
             /\ order' = order
             /\ positions_file' = positions_file ) ]_vars

\* C12 witness: the fetch failed for one position, and the next pass of the
\* same sweep fetched a price and closed a position still open
C12_Witness ==
    \E k \in DOMAIN sweep_log :
        /\ k < Len(sweep_log)
        /\ sweep_log[k].price = None
        /\ sweep_log[k + 1].price # None
        /\ sweep_log[k].id \in sweep_log[k + 1].closed

(***************************************************************************)
(* Claims about persistence.                                               *)
(***************************************************************************)
MutatingOps == {"open", "close", "update", "clear"}

\* C13: a call of open_position, close_position, update_position or
\* clear_positions whose storage write does not fail leaves the file equal to
\* the store in memory if it saved, and changed nothing if it did not save.
C13_SavedOnReturn ==
    [][ ( /\ calls' = calls + 1
          /\ last'.op \in MutatingOps
          /\ last'.write # "failed" )
        => IF last'.write = "ok"
           THEN /\ positions_file'.data = active_positions'
                /\ positions_file'.order = order'
           ELSE /\ active_positions' = active_positions
                /\ order' = order
                /\ positions_file' = positions_file ]_vars

\* C13 witness: a close was saved, and the file holds both records of the store
C13_Witness ==
    /\ last.op = "close" /\ last.ok /\ last.write = "ok"
    /\ Cardinality(DOMAIN active_positions) = 2
    /\ positions_file.data = active_positions

\* C14: no mutating call returns its normal result after a failed storage
\* write that left the file different from the store in memory.
C14_WriteFailureEscalated ==
    ( /\ last.op \in MutatingOps
      /\ last.write = "failed"
      /\ positions_file # [data |-> active_positions, order |-> order] )
        => ~last.ok

\* C15: a store constructed over the file an earlier instance left holds that
\* instance's records: its OPEN positions are returned by
\* get_active_positions, its CLOSED ones are CLOSED with the same realized_pnl.
C15_RestartKeepsRecords ==
    [][ IsCall("restart")
        => \A id \in DOMAIN active_positions :
              /\ id \in DOMAIN active_positions'
              /\ active_positions[id].status = "open"
                    => id \in SeqToSet(get_active_positions(active_positions',
                                                            order'))
              /\ active_positions[id].status = "closed"
                    => /\ active_positions'[id].status = "closed"
                       /\ active_positions'[id].realized_pnl
                              = active_positions[id].realized_pnl ]_vars

(***************************************************************************)
(* Claims about the risk manager.  The prices of RiskPrices are whole      *)
(* currency units, so price \div 1000 is exact.                            *)
(***************************************************************************)
\* account_size >= 0, risk_per_trade > 0, max_position_size > 0
ValidRiskConfig(cfg) ==
    /\ {"account_size", "risk_per_trade", "max_position_size"} \subseteq DOMAIN cfg
    /\ cfg.account_size >= 0
    /\ cfg.risk_per_trade > 0
    /\ cfg.max_position_size > 0

\* account_size * risk_per_trade / 100, in thousandths
RiskAmount(cfg) == (cfg.account_size * cfg.risk_per_trade) \div 100000

C17_ZeroRiskIsZero ==
    (last.op = "size" /\ last.entry_price = last.stop_loss) => last.result = 0

\* C17 witness: the call with entry_price = stop_loss = 100 under a valid
\* configuration
C17_Witness ==
    /\ last.op = "size"
    /\ ValidRiskConfig(config)
    /\ last.entry_price = 100000
    /\ last.stop_loss = 100000

C19_NoTradeBelowMinimum ==
    pc \in {"route", "trade", "record"}
        => (position_size > 0 /\ route_amount(position_size) >= 1)

\* the percentage the configuration supplies, as a fraction in thousandths:
\* under the key the code reads, or as a percentage under the key of the test
\* fixture; the built-in default when neither is there
SuppliedPercent(cfg, kind, default) ==
    IF (kind \o "_percent") \in DOMAIN cfg THEN cfg[kind \o "_percent"]
    ELSE IF (kind \o "_percentage") \in DOMAIN cfg
         THEN cfg[kind \o "_percentage"] \div 100
         ELSE default

\* C20: get_stop_loss(e) is e * (1 - stop_loss_pct) and get_take_profit(e) is
\* e * (1 + take_profit_pct), with the percentages the configuration supplies
\* (0.05 and 0.15 when it supplies none).
C20_ExitLevelsFromConfig ==
    /\ last.op = "stop_loss"
          => last.result * 1000
                = last.entry_price * (1000 - SuppliedPercent(config, "stop_loss", 50))
    /\ last.op = "take_profit"
          => last.result * 1000
                = last.entry_price * (1000 + SuppliedPercent(config, "take_profit", 150))

RECURSIVE Sum(_)
Sum(s) == IF s = <<>> THEN 0 ELSE Head(s) + Sum(Tail(s))

\* C22: after the update_trade_stats calls since the last reset, total_trades
\* is their number and equals winning_trades + losing_trades, total_pnl is the
\* sum of their pnl arguments, winning_trades counts the calls with pnl > 0
\* and losing_trades those with pnl <= 0.
C22_StatsAddUp ==
    /\ daily_stats.total_trades
          = daily_stats.winning_trades + daily_stats.losing_trades
    /\ daily_stats.total_pnl = Sum(pnl_log)
    /\ daily_stats.total_trades = Len(pnl_log)
    /\ daily_stats.winning_trades = Len(SelectSeq(pnl_log, LAMBDA x : x > 0))
    /\ daily_stats.losing_trades = Len(SelectSeq(pnl_log, LAMBDA x : x <= 0))

\* C22 witness: a winning, a losing and a break-even trade have been recorded
C22_Witness ==
    /\ last.op = "stats"
    /\ SeqToSet(pnl_log) = PnlSet

\* the values total_pnl took since the last reset, the initial 0 included
CumulativePnl(s) == {Sum(SubSeq(s, 1, k)) : k \in 0..Len(s)}
SetMin(S) == CHOOSE x \in S : \A y \in S : x <= y

Counters(stats) ==
    <<stats.total_trades, stats.winning_trades, stats.losing_trades,
      stats.total_pnl, stats.max_drawdown>>

\* C24: no step of a trading cycle (the gates, the opening of a position, the
\* exit sweep and its close_position calls included) changes total_trades,
\* winning_trades, losing_trades, total_pnl or max_drawdown.
C24_CycleLeavesStats ==
    [][Counters(daily_stats') = Counters(daily_stats)]_vars

\* C24 witness: the exit sweep has closed a position and the statistics are
\* those of a new RiskManager
C24_Witness ==
    /\ \E k \in DOMAIN sweep_log : sweep_log[k].closed # {}
    /\ Counters(daily_stats) = <<0, 0, 0, 0, 0>>

C26_UpdateTouchesOnlySupplied ==
    [][ IsCall("update") =>
          LET id == last'.id
              stop_loss == last'.args[1]
              take_profit == last'.args[2]
          IN  IF id \in DOMAIN active_positions
                    /\ active_positions[id].status = "open"
              THEN LET p == active_positions[id]
                       q == active_positions'[id]
                   IN  /\ last'.ok = TRUE
                       /\ order' = order
                       /\ DOMAIN active_positions' = DOMAIN active_positions
                       /\ \A x \in DOMAIN active_positions \ {id} :
                             active_positions'[x] = active_positions[x]
                       /\ DOMAIN q = DOMAIN p
                       /\ \A f \in DOMAIN p \ {"stop_loss", "take_profit",
                                               "last_update"} : q[f] = p[f]
                       /\ q.stop_loss = IF stop_loss # None THEN stop_loss
                                        ELSE p.stop_loss
                       /\ q.take_profit = IF take_profit # None THEN take_profit
                                          ELSE p.take_profit
                       /\ q.last_update = now
              ELSE /\ last'.ok = FALSE
                   /\ active_positions' = active_positions
                   /\ order' = order
                   /\ positions_file' = positions_file ]_vars

\* C26 witness: an update that supplied a stop_loss only, on a position that
\* keeps the take_profit it was opened with
C26_Witness ==
    /\ last.op = "update" /\ last.ok
    /\ last.args = <<1000, None>>
    /\ active_positions[last.id].stop_loss = 1000
    /\ active_positions[last.id].take_profit = 1004
    /\ active_positions[last.id].last_update > active_positions[last.id].entry_time

\* C27: get_active_positions returns exactly the ids whose record is OPEN, in
\* the order in which those positions were opened: the position an
\* open_position call opens comes last, behind the open ones there were.
C27_ActiveInOpeningOrder ==
    [][ /\ SeqToSet(get_active_positions(active_positions', order'))
              = {id \in DOMAIN active_positions' :
                    active_positions'[id].status = "open"}
        /\ IsCall("open") =>
              get_active_positions(active_positions', order')
                 = Append(SelectSeq(get_active_positions(active_positions, order),
                                    LAMBDA id : id # last'.id),
                          last'.id) ]_vars

\* C28: after clear_positions the store holds no record in memory or in the
\* positions file: get_active_positions is empty, check_position_exits names
\* no id at any price, and no id passes the guard of close_position and
\* update_position.
C28_ClearLeavesNothing ==
    last.op = "clear"
        => /\ active_positions = EmptyDict
           /\ order = <<>>
           /\ load_positions(positions_file).data = EmptyDict
           /\ get_active_positions(active_positions, order) = <<>>
           /\ \A current_price \in PriceSet :
                 check_position_exits(active_positions, order, current_price) = <<>>
           /\ \A id \in Ids : ~found_open(active_positions, id)

(***************************************************************************)
(* Claims about the order of processing and the run loop.                  *)
(***************************************************************************)
\* C29: within a cycle the opportunities are processed one at a time in the
\* order discovery returned them, each one finished (a failed check, or the
\* position recorded) before the next begins and all of them before the exit
\* sweep; the sweep processes the positions one at a time in the order of the
\* store.
C29_OneAtATimeInOrder ==
    /\ trail # <<>> => (trail[1].opp = 1 /\ trail[1].step = "safety")
    /\ \A k \in 1..(Len(trail) - 1) :
          IF trail[k].pass /\ trail[k].step # "record"
          THEN trail[k + 1].opp = trail[k].opp
          ELSE trail[k + 1].opp = trail[k].opp + 1 /\ trail[k + 1].step = "safety"
    /\ (pc = "sweep" /\ trail # <<>>)
          => /\ trail[Len(trail)].opp = Len(opportunities)
             /\ ~trail[Len(trail)].pass \/ trail[Len(trail)].step = "record"
    /\ positions = SelectSeq(order, LAMBDA id : id \in SeqToSet(positions))
    /\ Len(sweep_log) <= Len(positions)
    /\ \A k \in DOMAIN sweep_log : sweep_log[k].id = positions[k]
    /\ pc = "sweep" => si = Len(sweep_log) + 1

\* C29 witness: a cycle with two opportunities has returned after the sweep
\* made a pass for each of two positions
C29_Witness ==
    /\ pc = "returned"
    /\ Len(opportunities) = 2
    /\ Len(sweep_log) = 2
    /\ sweep_log[1].id # sweep_log[2].id

\* C30: when a trading cycle has failed with an error the run loop goes on:
\* it comes to wait for the next cycle again.
C30_FailedCycleIsFollowedByNext ==
    (pc = "raised") ~> (pc = "idle")

(***************************************************************************)
(* Claims about cancellation and the cycle's bookkeeping.                  *)
(***************************************************************************)
\* C31: when run() has left its loop, through an interrupt at an await of the
\* loop or through an error of a cycle, disconnect has been called on the
\* wallet; after the disconnect no cycle starts and nothing more happens.
C31_DisconnectBeforeExit ==
    [][ /\ pc' = "stopped" => wallet' = "disconnect_called"
        /\ wallet = "disconnect_called"
              => (cycle' = cycle /\ pc' = "stopped" /\ wallet' = wallet) ]_vars

\* C31 witness: run() has ended with the wallet disconnected and an empty
\* store, so through an interrupt and not through the error of a sweep
C31_Witness ==
    /\ pc = "stopped"
    /\ wallet = "disconnect_called"
    /\ cycle = 1
    /\ active_positions = EmptyDict

\* C32: every opportunity whose trade the execution collaborator carried out
\* has its position recorded in the store, or is at the open_position call
\* that records it, whenever an interrupt arrives.
C32_ExecutedTradeIsRecorded ==
    \A i \in executed :
        \/ (pc = "record" /\ oi = i)
        \/ \E b \in opened : b.opp = i /\ b.id \in DOMAIN active_positions

C34_DailyLimitBlocks ==
    ( /\ last.op = "allowed"
      /\ "max_daily_trades" \in DOMAIN config
      /\ daily_stats.total_trades >= config.max_daily_trades )
        => last.result = FALSE

\* the configured maximum drawdown as an amount in hundredths: max_drawdown
\* per cent of account_size
DrawdownLimit(cfg) == ((cfg.account_size \div 1000) * cfg.max_drawdown) \div 1000

\* C35: with max_drawdown at or below minus the configured maximum drawdown
\* (20 % of the account), check_trade_allowed returns False.
C35_DrawdownBlocks ==
    ( /\ last.op = "allowed"
      /\ {"max_drawdown", "account_size"} \subseteq DOMAIN config
      /\ daily_stats.max_drawdown <= -DrawdownLimit(config) )
        => last.result = FALSE

SetMax(S) == CHOOSE x \in S : \A y \in S : x >= y
\* the largest decline of the cumulative pnl from a peak before it, as a
\* negative amount
PeakToTrough(s) ==
    SetMin({ Sum(SubSeq(s, 1, k))
                - SetMax({Sum(SubSeq(s, 1, j)) : j \in 0..k}) : k \in 0..Len(s) })

\* C36: max_drawdown is the largest decline of the cumulative pnl from its
\* preceding peak, taken as a negative amount: after update_trade_stats(50)
\* and update_trade_stats(-30) on fresh statistics it is -30 while total_pnl
\* is 20.
C36_DrawdownFromPeak ==
    /\ daily_stats.max_drawdown = PeakToTrough(pnl_log)
    /\ pnl_log = <<5000, -3000>>
          => (daily_stats.max_drawdown = -3000 /\ daily_stats.total_pnl = 2000)

(***************************************************************************)
(* Claims about what the cycle lets through.                               *)
(***************************************************************************)
\* C37: an opportunity gets past the safety gate, and so to a trade and a
\* position, only with an analysis that is_safe rates as safe (safety_score
\* of at least 85); a token with a lower score or with no analysis stops there.
C37_UnsafeTokenStopsAtSafetyGate ==
    pc = "sentiment" => is_safe(trail[Len(trail)].analysis)

\* C38: the number of OPEN positions in the store never exceeds the
\* configured max_active_trades.
C38_OpenWithinMaxActiveTrades ==
    Cardinality({id \in DOMAIN active_positions :
                    active_positions[id].status = "open"})
        <= config.max_active_trades

\* the inputs for which no size can be computed: equal prices, an entry price
\* of 0, a configuration without one of the three parameters
Degenerate(cfg, entry_price, stop_loss) ==
    \/ entry_price = stop_loss
    \/ entry_price = 0
    \/ ~({"account_size", "risk_per_trade", "max_position_size"}
            \subseteq DOMAIN cfg)

\* C39: calculate_position_size returns 0 on every degenerate input, and the
\* cycle takes the 0 as a rejection: it goes on with the next opportunity (or
\* the sweep) and does not fail.
C39_DegenerateSizeIsRejection ==
    [][ /\ \A entry_price \in RiskPrices, stop_loss \in RiskPrices :
              Degenerate(config, entry_price, stop_loss)
                 => calculate_position_size(config, entry_price, stop_loss) = 0
        /\ (pc = "size" /\ pc' # "size")
              => LET entry_price == opportunities[oi].price_usd
                 IN  Degenerate(config, entry_price,
                                get_stop_loss(config, entry_price))
                        => /\ position_size' = 0
                           /\ pc' \in {"safety", "sweep", "returned"}
                           /\ oi' = oi + 1
                           /\ active_positions' = active_positions ]_vars

\* C39 witness: under the configuration ConfigLoader ships, an opportunity
\* with a positive price was rejected at the sizing step
C39_Witness ==
    /\ config = DefaultTrading
    /\ trail # <<>>
    /\ trail[Len(trail)].step = "size"
    /\ ~trail[Len(trail)].pass
    /\ opportunities[trail[Len(trail)].opp].price_usd > 0
    /\ position_size = 0

\* C40: the position the cycle opens for an opportunity holds the
\* opportunity's price as entry_price, the computed size as amount,
\* get_stop_loss(entry_price) and get_take_profit(entry_price) as thresholds;
\* with a positive entry price stop_loss < entry_price < take_profit and the
\* position is not exitable at its entry price.
C40_OpenedAsComputed ==
    [][ (pc = "record" /\ pc' # "record")
          => LET b == CHOOSE b \in opened' : b.opp = oi
                 p == active_positions'[b.id]
                 opportunity == opportunities[oi]
             IN  /\ p.token = opportunity.address
                 /\ p.entry_price = opportunity.price_usd
                 /\ p.amount = position_size
                 /\ p.stop_loss = get_stop_loss(config, p.entry_price)
                 /\ p.take_profit = get_take_profit(config, p.entry_price)
                 /\ p.status = "open"
                 /\ p.entry_price > 0
                       => /\ p.stop_loss < p.entry_price
                          /\ p.entry_price < p.take_profit
                          /\ ~exit_hit(p, p.entry_price) ]_vars

\* C40 witness: a position opened for the opportunity priced at 300
C40_Witness ==
    \E b \in opened :
        /\ active_positions[b.id].entry_price = 300000
        /\ active_positions[b.id].stop_loss = 285000
        /\ active_positions[b.id].take_profit = 345000


=============================================================================
